---- MODULE Spec2Model ----
(***************************************************************************)
(* A model of dagster_sqlmesh's translation layer:                         *)
(*   types.py       SQLMeshParsedFQN, SQLMeshModelDep,                      *)
(*                  SQLMeshMultiAssetOptions                                *)
(*   translator.py  IntermediateAssetOut, IntermediateAssetDep,             *)
(*                  SQLMeshDagsterTranslator                                *)
(*                                                                         *)
(* Python strings that the code splits, strips, joins or parses are        *)
(* sequences of one-character strings, so that those conversions are       *)
(* computed character by character.  Strings the code only stores and      *)
(* passes on (tag names, option names, dialect names) are TLA+ strings.    *)
(***************************************************************************)
EXTENDS Integers, Sequences, FiniteSets

VARIABLES
    fqn,            \* the fully qualified name handed to the operation
    fqn2,           \* a second fully qualified name (two-call comparisons)
    translator,     \* the class of the translator object (self)
    tags,           \* model.tags
    dialect,        \* context.engine_adapter.dialect
    assetOutParams, \* signature(AssetOut).parameters of the installed dagster
    options,        \* a SQLMeshMultiAssetOptions and the descriptors it holds
    result,         \* what the last call returned or raised
    result2         \* what the last call on fqn2 returned or raised

vars == <<fqn, fqn2, translator, tags, dialect, assetOutParams, options,
          result, result2>>

(***************************************************************************)
(* Bounds                                                                  *)
(***************************************************************************)
MaxFqnLen == 7

MaxCompLen == 2

MaxTags == 3

MaxKwargs == 2

MaxDeps == 2

(***************************************************************************)
(* Characters                                                              *)
(***************************************************************************)
DOT == "."

SQ == "'"

DQ == "\""

SLASH == "/"

UNDERSCORE == "_"

\* All sequences over S of length lo..hi.
SeqsOf(S, lo, hi) == UNION {[1..n -> S] : n \in lo..hi}

NoResult == [op |-> "none"]

(***************************************************************************)
(* Python str primitives                                                   *)
(***************************************************************************)
\* str.split(sep) for a one-character sep: every separator cuts, empty
\* segments are kept, and the empty string gives one empty segment.
RECURSIVE split(_, _)
split(s, sep) ==
    IF s = <<>> THEN << <<>> >>
    ELSE LET rest == split(Tail(s), sep)
         IN  IF Head(s) = sep
             THEN << <<>> >> \o rest
             ELSE << <<Head(s)>> \o Head(rest) >> \o Tail(rest)

\* str.lstrip(chars)
RECURSIVE lstrip(_, _)
lstrip(s, chars) ==
    IF s # <<>> /\ Head(s) \in chars THEN lstrip(Tail(s), chars) ELSE s

\* str.rstrip(chars)
RECURSIVE rstrip(_, _)
rstrip(s, chars) ==
    IF s # <<>> /\ s[Len(s)] \in chars
    THEN rstrip(SubSeq(s, 1, Len(s) - 1), chars)
    ELSE s

\* A strip that removes at most one character from each end.
strip_once(s, chars) ==
    LET l == IF s # <<>> /\ Head(s) \in chars THEN Tail(s) ELSE s
    IN  IF l # <<>> /\ l[Len(l)] \in chars
        THEN SubSeq(l, 1, Len(l) - 1)
        ELSE l

\* str.strip(chars)
strip(s, chars) == rstrip(lstrip(s, chars), chars)

\* sep.join(parts)
RECURSIVE join(_, _)
join(parts, sep) ==
    IF parts = <<>> THEN <<>>
    ELSE IF Len(parts) = 1 THEN parts[1]
    ELSE parts[1] \o <<sep>> \o join(Tail(parts), sep)

(***************************************************************************)
(* types.py: SQLMeshParsedFQN                                              *)
(***************************************************************************)
\* The characters of the literal "'\"" given to strip.
QuoteChars == {SQ, DQ}

\* list(map(lambda a: a.strip("'\""), split_fqn))
strip_quotes(split_fqn) ==
    [i \in 1..Len(split_fqn) |-> strip(split_fqn[i], QuoteChars)]

\* SQLMeshParsedFQN.parse: split_fqn[0], [1], [2] are read; a list shorter
\* than three raises IndexError, a longer one is read up to index 2.
parse(s) ==
    LET split_fqn == strip_quotes(split(s, DOT))
    IN  IF Len(split_fqn) < 3
        THEN [raised |-> "IndexError"]
        ELSE [raised |-> "none",
              catalog |-> split_fqn[1],
              schema |-> split_fqn[2],
              view_name |-> split_fqn[3]]

\* SQLMeshModelDep.parse_fqn
parse_fqn(dep) == parse(dep.fqn)

(***************************************************************************)
(* The parser's inputs and operations                                      *)
(***************************************************************************)
ParseChars == {"a", DOT, SQ, DQ}

\* SQLMeshMultiAssetOptions(): the fields' default factories.
NoOptions == [outs |-> <<>>, deps |-> <<>>, internal_asset_deps |-> <<>>]

InitParse ==
    /\ fqn \in SeqsOf(ParseChars, 0, MaxFqnLen)
    /\ fqn2 = <<>>
    /\ translator = "SQLMeshDagsterTranslator"
    /\ tags = <<>>
    /\ dialect = ""
    /\ assetOutParams = {}
    /\ options = NoOptions
    /\ result = NoResult
    /\ result2 = NoResult

Parse ==
    /\ result' = [op |-> "parse", value |-> parse(fqn)]
    /\ UNCHANGED <<fqn, fqn2, translator, tags, dialect, assetOutParams,
                   options, result2>>

ParseFqn ==
    /\ result' = [op |-> "parse_fqn",
                  value |-> parse_fqn([fqn |-> fqn, model |-> "None"])]
    /\ UNCHANGED <<fqn, fqn2, translator, tags, dialect, assetOutParams,
                   options, result2>>

NextParse == Parse \/ ParseFqn

SpecParse == InitParse /\ [][NextParse]_vars

(***************************************************************************)
(* Segments of a dotted name, read off the positions of its dots           *)
(***************************************************************************)
DotPositions(s) == {i \in 1..Len(s) : s[i] = DOT}

NumSegments(s) == Cardinality(DotPositions(s)) + 1

\* The position of the k-th dot of s; 0 for k = 0, Len(s) + 1 past the last.
DotAt(s, k) ==
    IF k = 0 THEN 0
    ELSE IF k > Cardinality(DotPositions(s)) THEN Len(s) + 1
    ELSE CHOOSE i \in DotPositions(s) :
            Cardinality({j \in DotPositions(s) : j < i}) = k - 1

Segment(s, k) == SubSeq(s, DotAt(s, k - 1) + 1, DotAt(s, k) - 1)

\* r is seg without a leading and a trailing run of quote characters, and
\* no quote character is left at either end of r.
IsQuoteStripped(seg, r) ==
    \E i \in 0..Len(seg) : \E j \in 0..(Len(seg) - i) :
        /\ r = SubSeq(seg, i + 1, Len(seg) - j)
        /\ \A k \in 1..i : seg[k] \in {SQ, DQ}
        /\ \A k \in (Len(seg) - j + 1)..Len(seg) : seg[k] \in {SQ, DQ}
        /\ r # <<>> => (r[1] \notin {SQ, DQ} /\ r[Len(r)] \notin {SQ, DQ})

Parsed == result.op \in {"parse", "parse_fqn"}

\* C3: parse fails for every input whose number of '.'-separated segments
\* is not exactly three, fewer or more, and never returns a record built
\* from part of the input.
C3_ParseRejectsWrongSegmentCount ==
    (Parsed /\ NumSegments(fqn) # 3) => result.value.raised # "none"

\* C6: for every input with exactly three '.'-separated segments, parse
\* returns catalog, schema and view_name equal to the first, second and
\* third segment, each with its leading and trailing quote characters
\* removed and nothing else changed.
C6_ParseStripsQuotesInPlace ==
    (Parsed /\ NumSegments(fqn) = 3) =>
        /\ result.value.raised = "none"
        /\ IsQuoteStripped(Segment(fqn, 1), result.value.catalog)
        /\ IsQuoteStripped(Segment(fqn, 2), result.value.schema)
        /\ IsQuoteStripped(Segment(fqn, 3), result.value.view_name)

\* parse of 'a'.".a : quotes of both kinds are removed, around a name and
\* from a segment that is nothing but a quote.
C6_Witness ==
    /\ result.op = "parse"
    /\ fqn = <<SQ, "a", SQ, DOT, DQ, DOT, "a">>
    /\ result.value = [raised |-> "none", catalog |-> <<"a">>,
                        schema |-> <<>>, view_name |-> <<"a">>]

(***************************************************************************)
(* sqlglot's exp.to_table, as far as the translator relies on it           *)
(*                                                                         *)
(* A table name is one to three identifiers separated by dots.  An         *)
(* identifier is either quoted ("...", any characters but the quote, the   *)
(* quotes not part of the name) or bare (letters, digits, underscores).    *)
(* Table.catalog, Table.db and Table.name are the identifiers' texts, the  *)
(* empty string for a part the name does not give.  Anything else is not   *)
(* a table name the model accepts: ParseError.                             *)
(***************************************************************************)
Letters ==
    {"a", "b", "c", "d", "e", "f", "g", "h", "i", "j", "k", "l", "m",
     "n", "o", "p", "q", "r", "s", "t", "u", "v", "w", "x", "y", "z"}

Digits == {"0", "1", "2", "3", "4", "5", "6", "7", "8", "9"}

BareChars == Letters \cup Digits \cup {UNDERSCORE}

\* The first position of c in s at or after i; 0 when there is none.
RECURSIVE find(_, _, _)
find(s, c, i) ==
    IF i > Len(s) THEN 0
    ELSE IF s[i] = c THEN i
    ELSE find(s, c, i + 1)

\* The length of the longest prefix of s made of bare characters.
RECURSIVE bare_prefix(_)
bare_prefix(s) ==
    IF s # <<>> /\ Head(s) \in BareChars THEN 1 + bare_prefix(Tail(s)) ELSE 0

\* One identifier off the front of s.
table_part(s) ==
    IF s # <<>> /\ Head(s) = DQ
    THEN LET close == find(s, DQ, 2)
         IN  IF close = 0
             THEN [ok |-> FALSE]
             ELSE [ok |-> TRUE, name |-> SubSeq(s, 2, close - 1),
                   rest |-> SubSeq(s, close + 1, Len(s))]
    ELSE LET n == bare_prefix(s)
         IN  IF n = 0
             THEN [ok |-> FALSE]
             ELSE [ok |-> TRUE, name |-> SubSeq(s, 1, n),
                   rest |-> SubSeq(s, n + 1, Len(s))]

\* The identifiers of a dotted name, in order.
RECURSIVE table_parts(_)
table_parts(s) ==
    LET part == table_part(s)
    IN  IF ~part.ok THEN [ok |-> FALSE]
        ELSE IF part.rest = <<>> THEN [ok |-> TRUE, parts |-> <<part.name>>]
        ELSE IF Head(part.rest) # DOT THEN [ok |-> FALSE]
        ELSE LET more == table_parts(Tail(part.rest))
             IN  IF ~more.ok THEN [ok |-> FALSE]
                 ELSE [ok |-> TRUE, parts |-> <<part.name>> \o more.parts]

to_table(s) ==
    LET p == table_parts(s)
    IN  IF ~p.ok \/ Len(p.parts) > 3
        THEN [raised |-> "ParseError"]
        ELSE LET n == Len(p.parts)
             IN  [raised |-> "none",
                  catalog |-> IF n = 3 THEN p.parts[1] ELSE <<>>,
                  db |-> IF n >= 2 THEN p.parts[n - 1] ELSE <<>>,
                  name |-> p.parts[n]]

(***************************************************************************)
(* translator.py: SQLMeshDagsterTranslator, naming                         *)
(***************************************************************************)
\* The classes a translator object may have: the class itself, and a
\* subclass that overrides get_asset_key_name alone.
Translators == {"SQLMeshDagsterTranslator", "CatalogTableTranslator"}

\* SQLMeshDagsterTranslator.get_asset_key_name
base_get_asset_key_name(f) ==
    LET table == to_table(f)
    IN  IF table.raised # "none" THEN [raised |-> table.raised]
        ELSE [raised |-> "none",
              value |-> <<table.catalog, table.db, table.name>>]

\* A subclass's get_asset_key_name: keys of two levels, catalog and table.
override_get_asset_key_name(f) ==
    LET table == to_table(f)
    IN  IF table.raised # "none" THEN [raised |-> table.raised]
        ELSE [raised |-> "none", value |-> <<table.catalog, table.name>>]

\* self.get_asset_key_name(fqn): the method of self's class.
get_asset_key_name(self, f) ==
    IF self = "CatalogTableTranslator"
    THEN override_get_asset_key_name(f)
    ELSE base_get_asset_key_name(f)

\* dagster's AssetKey(path)
AssetKey(path) == [path |-> path]

\* SQLMeshDagsterTranslator.get_asset_key
get_asset_key(self, f) ==
    LET path == get_asset_key_name(self, f)
    IN  IF path.raised # "none" THEN path
        ELSE [raised |-> "none", value |-> AssetKey(path.value)]

\* A get_group_name that reads the first component of the path.
get_group_name_first(self, f) ==
    LET path == get_asset_key_name(self, f)
    IN  IF path.raised # "none" THEN path
        ELSE [raised |-> "none", value |-> path.value[1]]

\* SQLMeshDagsterTranslator.get_group_name, on model.fqn: path[-2], which
\* raises IndexError on a path of fewer than two components.
get_group_name(self, f) ==
    LET path == get_asset_key_name(self, f)
    IN  IF path.raised # "none" THEN path
        ELSE IF Len(path.value) < 2 THEN [raised |-> "IndexError"]
        ELSE [raised |-> "none", value |-> path.value[Len(path.value) - 1]]

\* The literal "sqlmesh__"
Prefix == <<"s", "q", "l", "m", "e", "s", "h", UNDERSCORE, UNDERSCORE>>

\* SQLMeshDagsterTranslator.get_asset_key_str
get_asset_key_str(f) ==
    LET table == to_table(f)
    IN  IF table.raised # "none" THEN [raised |-> table.raised]
        ELSE LET asset_key_name == <<table.catalog, table.db, table.name>>
             IN  [raised |-> "none",
                  value |-> Prefix \o join(asset_key_name, UNDERSCORE)]

(***************************************************************************)
(* The naming operations and their inputs                                  *)
(***************************************************************************)
\* "part", quoted as the transformation engine quotes the parts of a
\* model's fqn.
Quoted(part) == <<DQ>> \o part \o <<DQ>>

QuotedFqn(parts) == join([i \in 1..Len(parts) |-> Quoted(parts[i])], DOT)

\* Characters of the names: a letter, and two a bare identifier cannot hold.
KeyChars == {"a", "-", DOT}

\* Names of one to three parts, quoted, and the bare names among them.
KeyFqns ==
    {QuotedFqn(ps) : ps \in SeqsOf(SeqsOf(KeyChars, 1, MaxCompLen), 1, 3)}
    \cup {join(ps, DOT) : ps \in SeqsOf(SeqsOf({"a"}, 1, MaxCompLen), 1, 3)}

InitKey ==
    /\ fqn \in KeyFqns
    /\ fqn2 = <<>>
    /\ translator \in Translators
    /\ tags = <<>>
    /\ dialect = ""
    /\ assetOutParams = {}
    /\ options = NoOptions
    /\ result = NoResult
    /\ result2 = NoResult

GetAssetKeyName ==
    /\ result' = [op |-> "get_asset_key_name",
                  value |-> get_asset_key_name(translator, fqn)]
    /\ UNCHANGED <<fqn, fqn2, translator, tags, dialect, assetOutParams,
                   options, result2>>

GetAssetKey ==
    /\ result' = [op |-> "get_asset_key",
                  value |-> get_asset_key(translator, fqn)]
    /\ UNCHANGED <<fqn, fqn2, translator, tags, dialect, assetOutParams,
                   options, result2>>

GetGroupName ==
    /\ result' = [op |-> "get_group_name",
                  value |-> get_group_name(translator, fqn)]
    /\ UNCHANGED <<fqn, fqn2, translator, tags, dialect, assetOutParams,
                   options, result2>>

GetAssetKeyStr ==
    /\ result' = [op |-> "get_asset_key_str", value |-> get_asset_key_str(fqn)]
    /\ UNCHANGED <<fqn, fqn2, translator, tags, dialect, assetOutParams,
                   options, result2>>

NextKey == GetAssetKeyName \/ GetAssetKey \/ GetGroupName \/ GetAssetKeyStr

SpecKey == InitKey /\ [][NextKey]_vars

\* Names whose three parts are drawn from the alphanumeric/underscore
\* alphabet.
InjChars == {"a", UNDERSCORE}

InjFqns == {QuotedFqn(ps) : ps \in SeqsOf(SeqsOf(InjChars, 1, MaxCompLen), 3, 3)}

InitInj ==
    /\ fqn \in InjFqns
    /\ fqn2 \in InjFqns
    /\ translator = "SQLMeshDagsterTranslator"
    /\ tags = <<>>
    /\ dialect = ""
    /\ assetOutParams = {}
    /\ options = NoOptions
    /\ result = NoResult
    /\ result2 = NoResult

\* get_asset_key_str called on the second name.
GetAssetKeyStr2 ==
    /\ result2' = [op |-> "get_asset_key_str",
                   value |-> get_asset_key_str(fqn2)]
    /\ UNCHANGED <<fqn, fqn2, translator, tags, dialect, assetOutParams,
                   options, result>>

NextInj == GetAssetKeyStr \/ GetAssetKeyStr2

SpecInj == InitInj /\ [][NextInj]_vars

StartsWith(s, prefix) ==
    Len(s) >= Len(prefix) /\ SubSeq(s, 1, Len(prefix)) = prefix

\* C1: for every fqn get_asset_key_str accepts, the returned string is
\* non-empty, starts with "sqlmesh__" and contains only alphanumeric
\* characters and underscores, whatever characters the catalog, schema or
\* table component contains.
C1_KeyStrIsAlphanumericUnderscore ==
    (result.op = "get_asset_key_str" /\ result.value.raised = "none") =>
        /\ result.value.value # <<>>
        /\ StartsWith(result.value.value, Prefix)
        /\ \A i \in 1..Len(result.value.value) :
              result.value.value[i] \in Letters \cup Digits \cup {UNDERSCORE}

\* The (catalog, schema, name) triple a name stands for.
Triple(f) == LET t == to_table(f) IN <<t.catalog, t.db, t.name>>

\* Every component of the triple is alphanumeric characters and underscores.
InAlphabet(triple) ==
    \A i \in 1..Len(triple) : \A j \in 1..Len(triple[i]) :
        triple[i][j] \in Letters \cup Digits \cup {UNDERSCORE}

\* C2: get_asset_key_str is deterministic, and injective over distinct
\* (catalog, schema, name) triples whose components are drawn from the
\* alphanumeric/underscore alphabet: two calls on the same fqn return the
\* same string, two calls on distinct triples return distinct strings.
C2_KeyStrDeterministicInjective ==
    (/\ result.op = "get_asset_key_str" /\ result.value.raised = "none"
     /\ result2.op = "get_asset_key_str" /\ result2.value.raised = "none") =>
        /\ fqn = fqn2 => result.value.value = result2.value.value
        /\ (/\ InAlphabet(Triple(fqn)) /\ InAlphabet(Triple(fqn2))
            /\ Triple(fqn) # Triple(fqn2)) =>
              result.value.value # result2.value.value

\* C7: get_group_name(context, model) returns exactly the second-to-last
\* component of the path that get_asset_key_name(model.fqn) returns on the
\* same translator, overridden or not; for the translator class itself
\* that is the schema component of the key get_asset_key produces.
C7_GroupNameIsSecondToLast ==
    result.op = "get_group_name" =>
        LET path == get_asset_key_name(translator, fqn).value
            key  == get_asset_key(translator, fqn).value
        IN  /\ result.value.raised = "none"
            /\ result.value.value = path[Len(path) - 1]
            /\ result.value.value = key.path[Len(key.path) - 1]
            /\ translator = "SQLMeshDagsterTranslator" =>
                  /\ Len(key.path) = 3
                  /\ result.value.value = to_table(fqn).db

\* Group names were computed for "a-"."."."a" by a subclass whose paths
\* have two components (the group is the catalog, not the schema).
C7_Witness ==
    /\ result.op = "get_group_name"
    /\ translator = "CatalogTableTranslator"
    /\ fqn = QuotedFqn(<< <<"a", "-">>, <<DOT>>, <<"a">> >>)
    /\ result.value = [raised |-> "none", value |-> <<"a", "-">>]

(***************************************************************************)
(* translator.py: SQLMeshDagsterTranslator, tags and dialect               *)
(***************************************************************************)
\* A Python dict is a function from its keys; {} has no keys.
EmptyDict == [k \in {} |-> ""]

\* d[k] = v
SetItem(d, k, v) == [x \in DOMAIN d \cup {k} |-> IF x = k THEN v ELSE d[x]]

\* A get_tags that keeps the tag's name as its value.
RECURSIVE get_tags_named(_)
get_tags_named(model_tags) ==
    IF model_tags = <<>> THEN EmptyDict
    ELSE SetItem(get_tags_named(SubSeq(model_tags, 1, Len(model_tags) - 1)),
                 model_tags[Len(model_tags)], model_tags[Len(model_tags)])

\* SQLMeshDagsterTranslator.get_tags: {k: "" for k in model.tags}, one
\* item set per tag, in the order of model.tags.
RECURSIVE get_tags(_)
get_tags(model_tags) ==
    IF model_tags = <<>> THEN EmptyDict
    ELSE SetItem(get_tags(SubSeq(model_tags, 1, Len(model_tags) - 1)),
                 model_tags[Len(model_tags)], "")

\* SQLMeshDagsterTranslator.get_context_dialect
get_context_dialect(context) == context.engine_adapter.dialect

TagNames == {"a", "b", "c"}

Dialects == {"duckdb", "postgres", "bigquery"}

InitModel ==
    /\ fqn = <<>>
    /\ fqn2 = <<>>
    /\ translator = "SQLMeshDagsterTranslator"
    /\ tags \in SeqsOf(TagNames, 0, MaxTags)
    /\ dialect \in Dialects
    /\ assetOutParams = {}
    /\ options = NoOptions
    /\ result = NoResult
    /\ result2 = NoResult

GetTags ==
    /\ result' = [op |-> "get_tags", raised |-> "none", value |-> get_tags(tags)]
    /\ UNCHANGED <<fqn, fqn2, translator, tags, dialect, assetOutParams,
                   options, result2>>

GetContextDialect ==
    /\ result' = [op |-> "get_context_dialect", raised |-> "none",
                  value |-> get_context_dialect(
                                [engine_adapter |-> [dialect |-> dialect]])]
    /\ UNCHANGED <<fqn, fqn2, translator, tags, dialect, assetOutParams,
                   options, result2>>

NextModel == GetTags \/ GetContextDialect

SpecModel == InitModel /\ [][NextModel]_vars

\* C8: get_tags returns a mapping whose key set is exactly the set of the
\* model's tag names and whose every value is the empty string; a model
\* with no tags yields an empty mapping and never an error.
C8_TagsMapToEmptyStrings ==
    result.op = "get_tags" =>
        /\ result.raised = "none"
        /\ DOMAIN result.value = {tags[i] : i \in 1..Len(tags)}
        /\ \A k \in DOMAIN result.value : result.value[k] = ""
        /\ tags = <<>> => DOMAIN result.value = {}

\* get_tags on a model tagged a, b, a.
C8_Witness ==
    /\ result.op = "get_tags"
    /\ tags = <<"a", "b", "a">>
    /\ result.value = [k \in {"a", "b"} |-> ""]

(***************************************************************************)
(* translator.py: the deferred descriptors                                 *)
(*                                                                         *)
(* Values the code stores and hands on without looking into them (a tags   *)
(* mapping, a set of kinds, a group name, a description) are strings       *)
(* naming the value; None is "None".                                       *)
(***************************************************************************)
None == "None"

\* dagster's AssetKey.from_user_string: the path is the string's
\* "/"-separated components.
from_user_string(asset_key_string) == AssetKey(split(asset_key_string, SLASH))

\* Parameters of AssetOut besides "kinds", the same in every dagster
\* version the model covers.
CommonParams ==
    {"dagster_type", "description", "is_required", "io_manager_key",
     "metadata", "group_name", "code_version", "tags", "key_prefix", "key"}

\* signature(AssetOut).parameters, after and before dagster added kinds.
ParamsWithKinds == CommonParams \cup {"kinds"}

ParamsWithoutKinds == CommonParams

\* Calling AssetOut(**args): a keyword that is no parameter is a TypeError
\* (the constructor takes no **kwargs); otherwise the output holds the
\* arguments it was given.
AssetOut(params, args) ==
    IF DOMAIN args \subseteq params
    THEN [raised |-> "none", passed |-> DOMAIN args, value |-> args]
    ELSE [raised |-> "TypeError", passed |-> DOMAIN args]

\* The keyword arguments of a call f(a=..., **kwargs).
Merge(explicit, kwargs) ==
    [k \in DOMAIN explicit \cup DOMAIN kwargs |->
        IF k \in DOMAIN explicit THEN explicit[k] ELSE kwargs[k]]

\* IntermediateAssetOut(model_key=..., asset_key=...): the dataclass's
\* defaults for the other fields.
IntermediateAssetOut(model_key, asset_key) ==
    [model_key |-> model_key, asset_key |-> asset_key, tags |-> None,
     is_required |-> TRUE, group_name |-> None, kinds |-> None,
     kwargs |-> EmptyDict]

\* A to_asset_out that clears the descriptor's own kinds field.
to_asset_out_clearing(self, params) ==
    LET asset_key == from_user_string(self.asset_key)
        kinds == IF "kinds" \notin params THEN None ELSE self.kinds
        explicit == [k \in {"key", "tags", "is_required", "group_name", "kinds"} |->
                        CASE k = "key" -> asset_key
                          [] k = "tags" -> self.tags
                          [] k = "is_required" -> self.is_required
                          [] k = "group_name" -> self.group_name
                          [] k = "kinds" -> kinds]
    IN  [self |-> [self EXCEPT !.kinds = kinds],
         result |-> IF DOMAIN explicit \cap DOMAIN self.kwargs # {}
                    THEN [raised |-> "TypeError", passed |-> DOMAIN explicit]
                    ELSE AssetOut(params, Merge(explicit, self.kwargs))]

\* IntermediateAssetOut.to_asset_out: the descriptor after the call, and
\* what the call returned or raised.  kinds is a local; the keyword kinds
\* is passed whatever the signature says.  A keyword given both by name
\* and in **self.kwargs is a TypeError.
to_asset_out(self, params) ==
    LET asset_key == from_user_string(self.asset_key)
        kinds == IF "kinds" \notin params THEN None ELSE self.kinds
        explicit == [k \in {"key", "tags", "is_required", "group_name", "kinds"} |->
                        CASE k = "key" -> asset_key
                          [] k = "tags" -> self.tags
                          [] k = "is_required" -> self.is_required
                          [] k = "group_name" -> self.group_name
                          [] k = "kinds" -> kinds]
    IN  [self |-> self,
         result |-> IF DOMAIN explicit \cap DOMAIN self.kwargs # {}
                    THEN [raised |-> "TypeError", passed |-> DOMAIN explicit]
                    ELSE AssetOut(params, Merge(explicit, self.kwargs))]

\* IntermediateAssetDep(key=key)
IntermediateAssetDep(key) == [key |-> key]

\* IntermediateAssetDep.to_asset_key
to_asset_key(self) == from_user_string(self.key)

\* SQLMeshDagsterTranslator.create_asset_dep
create_asset_dep(key) == IntermediateAssetDep(key)

\* dict.pop(key, default): the value, and the dict without the key.
pop(d, key, default) ==
    [value |-> IF key \in DOMAIN d THEN d[key] ELSE default,
     rest |-> [k \in DOMAIN d \ {key} |-> d[k]]]

\* A create_asset_out whose is_required falls back to the dataclass's True.
create_asset_out_required(model_key, asset_key, caller_kwargs) ==
    LET kinds == pop(caller_kwargs, "kinds", None)
        tgs == pop(kinds.rest, "tags", None)
        group_name == pop(tgs.rest, "group_name", None)
        is_required == pop(group_name.rest, "is_required", TRUE)
    IN  [caller_kwargs |-> caller_kwargs,
         value |-> [model_key |-> model_key, asset_key |-> asset_key,
                    tags |-> tgs.value, is_required |-> is_required.value,
                    group_name |-> group_name.value, kinds |-> kinds.value,
                    kwargs |-> is_required.rest]]

\* SQLMeshDagsterTranslator.create_asset_out: **kwargs is a dict of the
\* call's own, so the four pops change it and not the caller's mapping;
\* the descriptor keeps the popped dict.
create_asset_out(model_key, asset_key, caller_kwargs) ==
    LET kinds == pop(caller_kwargs, "kinds", None)
        tgs == pop(kinds.rest, "tags", None)
        group_name == pop(tgs.rest, "group_name", None)
        is_required == pop(group_name.rest, "is_required", FALSE)
    IN  [caller_kwargs |-> caller_kwargs,
         value |-> [model_key |-> model_key, asset_key |-> asset_key,
                    tags |-> tgs.value, is_required |-> is_required.value,
                    group_name |-> group_name.value, kinds |-> kinds.value,
                    kwargs |-> is_required.rest]]

(***************************************************************************)
(* types.py: SQLMeshMultiAssetOptions                                      *)
(***************************************************************************)
\* SQLMeshMultiAssetOptions.to_asset_outs: the descriptors after the call
\* and the mapping returned; one failing to_asset_out fails the call.
to_asset_outs(self, params) ==
    LET each == [key \in DOMAIN self.outs |-> to_asset_out(self.outs[key], params)]
    IN  [self |-> [self EXCEPT !.outs = [key \in DOMAIN self.outs |-> each[key].self]],
         result |->
            IF \E key \in DOMAIN each : each[key].result.raised # "none"
            THEN [raised |-> "TypeError"]
            ELSE [raised |-> "none",
                  value |-> [key \in DOMAIN each |-> each[key].result.value]]]

\* A to_asset_deps that resolves the dependencies last to first.
to_asset_deps_reversed(self) ==
    [i \in 1..Len(self.deps) |-> to_asset_key(self.deps[Len(self.deps) + 1 - i])]

\* SQLMeshMultiAssetOptions.to_asset_deps
to_asset_deps(self) == [i \in 1..Len(self.deps) |-> to_asset_key(self.deps[i])]

\* SQLMeshMultiAssetOptions.to_internal_asset_deps
to_internal_asset_deps(self) ==
    [key \in DOMAIN self.internal_asset_deps |->
        {from_user_string(dep) : dep \in self.internal_asset_deps[key]}]

(***************************************************************************)
(* The descriptors' operations and their inputs                            *)
(***************************************************************************)
\* The models of a load: each one's internal key and asset key string.
Models ==
    {[model_key |-> "m1", asset_key |-> <<"x", SLASH, "y">>],
     [model_key |-> "m2", asset_key |-> <<"z">>]}

\* Dependency key strings.
DepKeys == {<<"x", SLASH, "y">>, <<"z">>}

\* The asset key strings of the outputs a model's output depends on.
InternalDepsOf(model_key) ==
    IF model_key = "m1" THEN {<<"z">>} ELSE {<<"x", SLASH, "y">>, <<"z">>}

\* Options a caller may give create_asset_out: the four it names and one
\* it only passes through.
OptionNames == {"kinds", "tags", "group_name", "is_required", "description"}

\* The caller's keyword arguments with the given names.
KwargsWith(names, required) ==
    [k \in names |->
        CASE k = "kinds" -> "{'sqlmesh'}"
          [] k = "tags" -> "{'t': ''}"
          [] k = "group_name" -> "g"
          [] k = "is_required" -> required
          [] k = "description" -> "d"]

KwargsChoices ==
    {KwargsWith(names, required) :
        names \in {S \in SUBSET OptionNames : Cardinality(S) <= MaxKwargs},
        required \in BOOLEAN}

Init ==
    /\ fqn = <<>>
    /\ fqn2 = <<>>
    /\ translator = "SQLMeshDagsterTranslator"
    /\ tags = <<>>
    /\ dialect = ""
    /\ assetOutParams \in {ParamsWithKinds, ParamsWithoutKinds}
    /\ options = NoOptions
    /\ result = NoResult
    /\ result2 = NoResult

\* translator.create_asset_out(model_key=..., asset_key=..., **kwargs); the
\* descriptor becomes the model's entry of outs, made once per model.
CreateAssetOut ==
    \E m \in Models :
        /\ m.model_key \notin DOMAIN options.outs
        /\ \E kw \in KwargsChoices :
           LET r == create_asset_out(m.model_key, m.asset_key, kw)
           IN  /\ options' =
                    [options EXCEPT
                        !.outs = SetItem(@, m.model_key, r.value),
                        !.internal_asset_deps =
                            SetItem(@, m.model_key, InternalDepsOf(m.model_key))]
               /\ result' = [op |-> "create_asset_out", args |-> kw,
                             args_after |-> r.caller_kwargs, value |-> r.value]
        /\ UNCHANGED <<fqn, fqn2, translator, tags, dialect, assetOutParams,
                       result2>>

\* IntermediateAssetOut(model_key=..., asset_key=...) constructed directly.
NewIntermediateAssetOut ==
    \E m \in Models :
        /\ m.model_key \notin DOMAIN options.outs
        /\ LET d == IntermediateAssetOut(m.model_key, m.asset_key)
           IN  /\ options' =
                    [options EXCEPT
                        !.outs = SetItem(@, m.model_key, d),
                        !.internal_asset_deps =
                            SetItem(@, m.model_key, InternalDepsOf(m.model_key))]
               /\ result' = [op |-> "IntermediateAssetOut", value |-> d]
        /\ UNCHANGED <<fqn, fqn2, translator, tags, dialect, assetOutParams,
                       result2>>

\* translator.create_asset_dep(key=...); the descriptor is appended to deps.
CreateAssetDep ==
    \E key \in DepKeys :
        /\ Len(options.deps) < MaxDeps
        /\ LET d == create_asset_dep(key)
           IN  /\ options' = [options EXCEPT !.deps = Append(@, d)]
               /\ result' = [op |-> "create_asset_dep", value |-> d]
        /\ UNCHANGED <<fqn, fqn2, translator, tags, dialect, assetOutParams,
                       result2>>

ToAssetOut ==
    \E key \in DOMAIN options.outs :
        /\ LET r == to_asset_out(options.outs[key], assetOutParams)
           IN  /\ options' = [options EXCEPT !.outs[key] = r.self]
               /\ result' = [op |-> "to_asset_out", target |-> key,
                             value |-> r.result]
        /\ UNCHANGED <<fqn, fqn2, translator, tags, dialect, assetOutParams,
                       result2>>

ToAssetKey ==
    \E i \in 1..Len(options.deps) :
        /\ result' = [op |-> "to_asset_key", target |-> i,
                      value |-> to_asset_key(options.deps[i])]
        /\ UNCHANGED <<fqn, fqn2, translator, tags, dialect, assetOutParams,
                       options, result2>>

ToAssetOuts ==
    /\ LET r == to_asset_outs(options, assetOutParams)
       IN  /\ options' = r.self
           /\ result' = [op |-> "to_asset_outs", target |-> "options",
                         value |-> r.result]
    /\ UNCHANGED <<fqn, fqn2, translator, tags, dialect, assetOutParams,
                   result2>>

ToAssetDeps ==
    /\ result' = [op |-> "to_asset_deps", target |-> "options",
                  value |-> to_asset_deps(options)]
    /\ UNCHANGED <<fqn, fqn2, translator, tags, dialect, assetOutParams,
                   options, result2>>

ToInternalAssetDeps ==
    /\ result' = [op |-> "to_internal_asset_deps", target |-> "options",
                  value |-> to_internal_asset_deps(options)]
    /\ UNCHANGED <<fqn, fqn2, translator, tags, dialect, assetOutParams,
                   options, result2>>

Next ==
    \/ CreateAssetOut
    \/ NewIntermediateAssetOut
    \/ CreateAssetDep
    \/ ToAssetOut
    \/ ToAssetKey
    \/ ToAssetOuts
    \/ ToAssetDeps
    \/ ToInternalAssetDeps

Spec == Init /\ [][Next]_vars

\* C4: to_asset_out never fails because of the kinds field: when AssetOut
\* does not accept a "kinds" parameter, no "kinds" argument is passed to the
\* constructor at all and an AssetOut is still returned; when it does
\* accept it, the stored kinds value is passed unchanged.
C4_KindsOmittedWhenUnsupported ==
    result.op = "to_asset_out" =>
        /\ result.value.raised = "none"
        /\ "kinds" \notin assetOutParams => "kinds" \notin result.value.passed
        /\ "kinds" \in assetOutParams =>
              /\ "kinds" \in result.value.passed
              /\ result.value.value["kinds"] = options.outs[result.target].kinds

\* C5: create_asset_out called without is_required returns a descriptor
\* with is_required false, an IntermediateAssetOut constructed directly
\* without is_required has is_required true, and a supplied is_required is
\* stored as supplied.
C5_IsRequiredDefaults ==
    /\ result.op = "create_asset_out" =>
          result.value.is_required =
              IF "is_required" \in DOMAIN result.args
              THEN result.args["is_required"]
              ELSE FALSE
    /\ result.op = "IntermediateAssetOut" => result.value.is_required = TRUE

\* create_asset_out was called with kinds and a description and without
\* is_required.
C5_Witness ==
    /\ result.op = "create_asset_out"
    /\ DOMAIN result.args = {"kinds", "description"}
    /\ result.value.is_required = FALSE

\* C9: to_asset_deps returns a sequence of the length of deps whose i-th
\* element is the platform key built from the user string of the i-th
\* dependency (its "/"-separated components), none dropped or duplicated
\* and in order; to_asset_key of a dependency gives the key built directly
\* from its string.
C9_DepsResolvedInOrder ==
    /\ result.op = "to_asset_deps" =>
          /\ Len(result.value) = Len(options.deps)
          /\ \A i \in 1..Len(options.deps) :
                /\ result.value[i] = from_user_string(options.deps[i].key)
                /\ join(result.value[i].path, SLASH) = options.deps[i].key
    /\ result.op = "to_asset_key" =>
          /\ result.value = from_user_string(options.deps[result.target].key)
          /\ join(result.value.path, SLASH) = options.deps[result.target].key

\* The dependencies "x/y" and "z", in that order, were resolved.
C9_Witness ==
    /\ result.op = "to_asset_deps"
    /\ options.deps = <<[key |-> <<"x", SLASH, "y">>], [key |-> <<"z">>]>>
    /\ result.value = <<[path |-> << <<"x">>, <<"y">> >>],
                         [path |-> << <<"z">> >>]>>

ResolveOps ==
    {"to_asset_out", "to_asset_key", "to_asset_outs", "to_asset_deps",
     "to_internal_asset_deps"}

\* C10: no operation mutates a descriptor or its inputs: a call of
\* to_asset_out, to_asset_key, to_asset_outs, to_asset_deps or
\* to_internal_asset_deps leaves every field of every descriptor and of the
\* options as it was, so resolving the same descriptor again gives an equal
\* result; and create_asset_out leaves the caller's arguments unchanged,
\* storing in the descriptor's extra kwargs exactly the options other than
\* kinds, tags, group_name and is_required.
C10_DescriptorsNeverMutated ==
    [][/\ result'.op \in ResolveOps =>
            /\ options' = options
            /\ assetOutParams' = assetOutParams
            /\ (result.op = result'.op /\ result.target = result'.target) =>
                  result'.value = result.value
       /\ result'.op = "create_asset_out" =>
            /\ result'.args_after = result'.args
            /\ DOMAIN result'.value.kwargs =
                  DOMAIN result'.args \ {"kinds", "tags", "group_name", "is_required"}
            /\ \A k \in DOMAIN result'.value.kwargs :
                  result'.value.kwargs[k] = result'.args[k]
            /\ \A key \in DOMAIN options.outs :
                  options'.outs[key] = options.outs[key]
            /\ options'.deps = options.deps]_vars

\* A descriptor that holds kinds was resolved where AssetOut has no kinds
\* parameter, and still holds them.
C10_Witness ==
    /\ result.op = "to_asset_out"
    /\ "kinds" \notin assetOutParams
    /\ options.outs[result.target].kinds # None
    /\ DOMAIN options.outs[result.target].kwargs = {"description"}

====
